---- MODULE Spec2Model ----
(***************************************************************************)
(* Model of the C++ project generator: the recipe catalog                  *)
(* (backend/recipe_loader.py), the generator                                *)
(* (cargo-cpp-server/generator.py) and the HTTP handlers                    *)
(* (backend/main.py, forge-server/main.py).                                 *)
(*                                                                          *)
(* Python values are written as tags: "True", "False", "None", "0", "1",    *)
(* "''" (the empty string) and "'x'" (a non-empty string).  Text artifacts  *)
(* are sequences of lines; a line is a record [kind, id, val, num].         *)
(***************************************************************************)
EXTENDS Integers, Sequences, FiniteSets, TLC

VARIABLES
    dirExists,   \* recipes_dir.exists()
    disk,        \* the *.yaml entries of recipes_dir, in directory-listing order
    libraries,   \* RecipeLoader._libraries (insertion-ordered dict) as a sequence
    loaded,      \* RecipeLoader._loaded
    clock,       \* time.time() as seen by zipfile.writestr
    config,      \* the ProjectConfig the client submits
    resp,        \* outcome of the last handler that ran
    calls        \* the loader calls in progress, one frame per thread

vars == <<dirExists, disk, libraries, loaded, clock, config, resp, calls>>

----------------------------------------------------------------------------
(* Bounds *)

MaxSel == 2      \* longest selection list of a ProjectConfig
MaxDocs == 3     \* most recipe documents in the directory at once
MaxClock == 2    \* last instant of the wall clock

----------------------------------------------------------------------------
(* Python values *)

PyTrue == "True"
PyFalse == "False"
PyNone == "None"

\* bool(v)
Truthy(v) == v \notin {"False", "None", "0", "''", ""}

\* d.get(k, default)
Get(d, k, default) == IF k \in DOMAIN d THEN d[k] ELSE default

\* {k: d[k]} if k in d else {}
Opt(d, k) == IF k \in DOMAIN d THEN (k :> d[k]) ELSE << >>

Range(s) == {s[i] : i \in 1..Len(s)}

RECURSIVE Flatten(_)
Flatten(ss) == IF ss = << >> THEN << >> ELSE Head(ss) \o Flatten(Tail(ss))

RECURSIVE SeqsUpTo(_, _)
SeqsUpTo(S, n) ==
    IF n = 0 THEN {<< >>}
    ELSE LET shorter == SeqsUpTo(S, n - 1)
         IN shorter \cup {Append(s, x) : s \in {t \in shorter : Len(t) = n - 1}, x \in S}

----------------------------------------------------------------------------
(* Recipe documents *)

SslOption ==
    [id |-> "asio_ssl", type |-> "boolean", default |-> "False",
     cmake_var |-> "ASIO_ENABLE_SSL", affects_link |-> TRUE,
     link_libraries_when_enabled |-> <<"OpenSSL::SSL", "pthread">>]

ExamplesOption ==
    [id |-> "asio_examples", type |-> "boolean", default |-> "True",
     cmake_var |-> "ASIO_BUILD_EXAMPLES",
     link_libraries_when_enabled |-> <<"asio_examples">>]

StdlibOption ==
    [id |-> "asio_stdlib", type |-> "choice", choices |-> <<"'x'">>,
     cmake_define |-> "ASIO_STDLIB", affects_link |-> TRUE,
     link_libraries_when_enabled |-> <<"c++abi">>]

LogOption ==
    [id |-> "log_prefix", type |-> "string", default |-> "''",
     cmake_var |-> "TUNED_LOG_PREFIX"]

ThreadsOption ==
    [id |-> "threads", type |-> "integer", default |-> "0",
     cmake_var |-> "TUNED_THREADS"]

ModeOption ==
    [id |-> "mode", type |-> "choice", choices |-> <<"'x'">>,
     cmake_var |-> "TUNED_MODE"]

FastOption ==
    [id |-> "fast", type |-> "boolean", default |-> "False",
     cmake_var |-> "TUNED_FAST"]

TraceOption ==
    [id |-> "trace", type |-> "boolean", default |-> "True",
     cmake_define |-> "TUNED_TRACE"]

\* what yaml.safe_load returns for each file ("error": it raises YAMLError,
\* "empty": it returns None)
Documents ==
    [f \in {"fmt.yaml", "asio.yaml", "googletest.yaml", "catch2.yaml",
            "_schema.yaml", "broken.yaml", "noid.yaml", "fmt_v2.yaml", "empty.yaml",
            "tuned.yaml", "stb.yaml", "zlib.yaml"} |->
        CASE f = "fmt.yaml" ->
               [yaml |-> "ok",
                data |-> [id |-> "fmt", name |-> "fmt", category |-> "formatting",
                          cpp_standard |-> 11,
                          link_libraries |-> <<"fmt::fmt", "pthread">>,
                          fetch_content |-> [repository |-> "fmtlib/fmt", tag |-> "10.2.1"]]]
          [] f = "asio.yaml" ->
               [yaml |-> "ok",
                data |-> [id |-> "asio", name |-> "Asio", category |-> "networking",
                          cpp_standard |-> 20,
                          link_libraries |-> <<"pthread", "asio">>,
                          options |-> <<SslOption, ExamplesOption, StdlibOption>>,
                          system_package |-> TRUE,
                          find_package_name |-> "asio"]]
          [] f = "googletest.yaml" ->
               [yaml |-> "ok",
                data |-> [id |-> "googletest", name |-> "Google Test",
                          category |-> "testing", cpp_standard |-> 14,
                          link_libraries |-> <<"GTest::gtest_main", "pthread">>,
                          cmake_pre |-> "set(gtest_force_shared_crt ON)",
                          fetch_content |-> [repository |-> "google/googletest",
                                             tag |-> "v1.14.0"]]]
          [] f = "catch2.yaml" ->
               [yaml |-> "ok",
                data |-> [id |-> "catch2", name |-> "Catch2", category |-> "testing",
                          link_libraries |-> <<"Catch2::Catch2WithMain">>,
                          fetch_content |-> [repository |-> "catchorg/Catch2",
                                             tag |-> "v3.5.2",
                                             source_subdir |-> "src"]]]
          [] f = "_schema.yaml" ->
               [yaml |-> "ok", data |-> [id |-> "schema", name |-> "Recipe schema"]]
          [] f = "broken.yaml" -> [yaml |-> "error", data |-> << >>]
          [] f = "noid.yaml" ->
               [yaml |-> "ok", data |-> [name |-> "anonymous", category |-> "testing"]]
          [] f = "fmt_v2.yaml" ->
               [yaml |-> "ok",
                data |-> [id |-> "fmt", name |-> "fmt 11", category |-> "formatting",
                          cpp_standard |-> 17,
                          link_libraries |-> <<"fmt::fmt">>,
                          fetch_content |-> [repository |-> "fmtlib/fmt", tag |-> "11.0.0"]]]
          [] f = "empty.yaml" -> [yaml |-> "empty", data |-> << >>]
          [] f = "tuned.yaml" ->
               [yaml |-> "ok",
                data |-> [id |-> "tuned", name |-> "Tuned", category |-> "utility",
                          link_libraries |-> <<"tuned">>,
                          options |-> <<LogOption, ThreadsOption, ModeOption,
                                        FastOption, TraceOption>>,
                          fetch_content |-> [repository |-> "acme/tuned",
                                             tag |-> "v2.0"]]]
          [] f = "stb.yaml" ->
               [yaml |-> "ok",
                data |-> [id |-> "stb", name |-> "stb", category |-> "utility",
                          cmake_post |-> "add_library(stb INTERFACE)"]]
          [] f = "zlib.yaml" ->
               [yaml |-> "ok",
                data |-> [id |-> "zlib", name |-> "ZLIB", category |-> "compression",
                          link_libraries |-> <<"ZLIB::ZLIB">>,
                          system_package |-> TRUE,
                          fetch_content |-> [repository |-> "madler/zlib",
                                             tag |-> "v1.3.1"]]]]

Files == DOMAIN Documents

\* recipe_file.name.startswith("_")
StartsWithUnderscore(f) == f \in {"_schema.yaml"}

----------------------------------------------------------------------------
(* RecipeLoader *)

\* RecipeLoader._load_recipe_file: "raise" when yaml.safe_load raises, "none"
\* for an empty document or one without "id", else the Library with defaults.
_load_recipe_file(f) ==
    LET doc == Documents[f]
        data == doc.data
    IN IF doc.yaml = "error" THEN [outcome |-> "raise"]
       ELSE IF doc.yaml = "empty" \/ "id" \notin DOMAIN data THEN [outcome |-> "none"]
       ELSE [outcome |-> "library",
             library |->
                 [id |-> data.id,
                  name |-> Get(data, "name", data.id),
                  category |-> Get(data, "category", "utility"),
                  cpp_standard |-> Get(data, "cpp_standard", 11),
                  link_libraries |-> Get(data, "link_libraries", << >>),
                  options |-> Get(data, "options", << >>),
                  system_package |-> Get(data, "system_package", FALSE)]
                 @@ Opt(data, "fetch_content")
                 @@ Opt(data, "cmake_pre")
                 @@ Opt(data, "cmake_post")
                 @@ Opt(data, "find_package_name")]

\* self._libraries[library["id"]] = library on an insertion-ordered dict
DictSet(libs, library) ==
    IF \E i \in 1..Len(libs) : libs[i].id = library.id
    THEN [i \in 1..Len(libs) |-> IF libs[i].id = library.id THEN library ELSE libs[i]]
    ELSE Append(libs, library)

\* the loop without the try/except around one file: the first document that
\* fails to parse ends it
RECURSIVE LoadLoop_StopsAtError(_, _)
LoadLoop_StopsAtError(libs, files) ==
    IF files = << >> THEN libs
    ELSE LET f == Head(files)
             r == _load_recipe_file(f)
         IN IF StartsWithUnderscore(f) THEN LoadLoop_StopsAtError(libs, Tail(files))
            ELSE IF r.outcome = "library"
                 THEN LoadLoop_StopsAtError(DictSet(libs, r.library), Tail(files))
                 ELSE IF r.outcome = "raise" THEN libs
                 ELSE LoadLoop_StopsAtError(libs, Tail(files))

\* the for loop of load_recipes over the glob result
RECURSIVE LoadLoop(_, _)
LoadLoop(libs, files) ==
    IF files = << >> THEN libs
    ELSE LET f == Head(files)
             r == _load_recipe_file(f)
         IN IF StartsWithUnderscore(f) THEN LoadLoop(libs, Tail(files))
            ELSE IF r.outcome = "library"
                 THEN LoadLoop(DictSet(libs, r.library), Tail(files))
                 ELSE LoadLoop(libs, Tail(files))

\* load_recipes without "if self._loaded: return"
load_recipes_NoGuard(st) ==
    IF ~dirExists
    THEN [libraries |-> st.libraries, loaded |-> FALSE, raised |-> TRUE]
    ELSE [libraries |-> LoadLoop(st.libraries, disk), loaded |-> TRUE, raised |-> FALSE]

\* load_recipes without the exists() test: glob on a missing directory
\* yields nothing
load_recipes_NoDirCheck(st) ==
    IF st.loaded THEN [libraries |-> st.libraries, loaded |-> TRUE, raised |-> FALSE]
    ELSE [libraries |-> LoadLoop(st.libraries, disk), loaded |-> TRUE, raised |-> FALSE]

\* RecipeLoader.load_recipes applied to loader state st = [libraries, loaded]:
\* the state afterwards and whether RuntimeError was raised
load_recipes(st) ==
    IF st.loaded THEN [libraries |-> st.libraries, loaded |-> TRUE, raised |-> FALSE]
    ELSE IF ~dirExists
         THEN [libraries |-> st.libraries, loaded |-> FALSE, raised |-> TRUE]
         ELSE [libraries |-> LoadLoop(st.libraries, disk), loaded |-> TRUE,
               raised |-> FALSE]

\* reload_recipes that loads into a fresh index and installs it only when
\* the load succeeds
reload_recipes_SwapOnSuccess(st) ==
    IF ~dirExists
    THEN [libraries |-> st.libraries, loaded |-> st.loaded, raised |-> TRUE]
    ELSE load_recipes([libraries |-> << >>, loaded |-> FALSE])

\* reload_recipes without "self._libraries = {}"
reload_recipes_KeepsIndex(st) ==
    load_recipes([libraries |-> st.libraries, loaded |-> FALSE])

\* RecipeLoader.reload_recipes
reload_recipes(st) == load_recipes([libraries |-> << >>, loaded |-> FALSE])

\* self._libraries.get(library_id) once loaded; "None" when absent
DictGet(libs, library_id) ==
    IF \E i \in 1..Len(libs) : libs[i].id = library_id
    THEN libs[CHOOSE i \in 1..Len(libs) : libs[i].id = library_id]
    ELSE PyNone

Known(libs, library_id) == \E i \in 1..Len(libs) : libs[i].id = library_id

LoaderState == [libraries |-> libraries, loaded |-> loaded]

\* the threads that may be inside the loader at the same time
Threads == {"reloader", "reader"}

\* the frame of a loader call: where the call stands (pc), the glob entries
\* its load loop has still to visit (files), and the index as it was when the
\* call began (before)
Frame(pc, files, before) == [pc |-> pc, files |-> files, before |-> before]

Idle == Frame("idle", << >>, << >>)

NoCalls == [t \in Threads |-> Idle]

----------------------------------------------------------------------------
(* Generator: cargo-cpp-server/generator.py *)

\* one line of a generated text
L(kind, id, val, num) == [kind |-> kind, id |-> id, val |-> val, num |-> num]

\* get_library_by_id re-reading the directory on every request
Lookup_Reload(st, needed) ==
    IF needed THEN reload_recipes(st)
    ELSE [libraries |-> st.libraries, loaded |-> st.loaded, raised |-> FALSE]

\* a run of get_library_by_id calls: the first one loads the catalog
Lookup(st, needed) ==
    IF needed THEN load_recipes(st)
    ELSE [libraries |-> st.libraries, loaded |-> st.loaded, raised |-> FALSE]

\* options.get(opt_id, opt.get("default"))
OptValue(opt, options) == Get(options, opt.id, Get(opt, "default", PyNone))

\* the "Generate CMake variables from options" loop body for one option
OptionVarLines(opt, options) ==
    LET v == OptValue(opt, options)
    IN IF v = PyNone THEN << >>
       ELSE IF "cmake_var" \notin DOMAIN opt THEN << >>
       ELSE IF opt.type = "boolean"
            THEN <<L("set", opt.cmake_var, IF Truthy(v) THEN "ON" ELSE "OFF", 0)>>
       ELSE IF opt.type = "string" /\ Truthy(v) THEN <<L("set", opt.cmake_var, v, 1)>>
       ELSE IF opt.type = "integer" THEN <<L("set", opt.cmake_var, v, 0)>>
       ELSE IF opt.type = "choice" THEN <<L("set", opt.cmake_var, v, 1)>>
       ELSE << >>

\* the "Generate compile definitions from options" loop body for one option
OptionDefineLines(opt, options) ==
    LET v == OptValue(opt, options)
    IN IF "cmake_define" \in DOMAIN opt /\ Truthy(v)
       THEN IF opt.type = "boolean" THEN <<L("add_compile_definitions", opt.cmake_define, "", 0)>>
            ELSE IF opt.type \in {"integer", "string", "choice"}
                 THEN <<L("add_compile_definitions", opt.cmake_define, v, 0)>>
                 ELSE << >>
       ELSE << >>

\* the find_package / FetchContent branch
AcquisitionLines(lib) ==
    IF lib.system_package
    THEN <<L("find_package", Get(lib, "find_package_name", lib.name), "REQUIRED", 0)>>
    ELSE LET fc == Get(lib, "fetch_content", << >>)
         IN IF fc = << >> THEN << >>
            ELSE <<L("FetchContent_Declare", lib.id, "", 0),
                   L("GIT_REPOSITORY", lib.id, fc.repository, 0),
                   L("GIT_TAG", lib.id, fc.tag, 0)>>
                 \o (IF "source_subdir" \in DOMAIN fc
                     THEN <<L("SOURCE_SUBDIR", lib.id, fc.source_subdir, 0)>> ELSE << >>)
                 \o <<L("FetchContent_MakeAvailable", lib.id, "", 0)>>

generate_library_cmake(lib, options) ==
    <<L("comment", lib.name, "", 0)>>
    \o Flatten([i \in 1..Len(lib.options) |-> OptionVarLines(lib.options[i], options)])
    \o (IF "cmake_pre" \in DOMAIN lib THEN <<L("cmake_pre", lib.id, lib.cmake_pre, 0)>> ELSE << >>)
    \o AcquisitionLines(lib)
    \o (IF "cmake_post" \in DOMAIN lib THEN <<L("cmake_post", lib.id, lib.cmake_post, 0)>> ELSE << >>)
    \o Flatten([i \in 1..Len(lib.options) |-> OptionDefineLines(lib.options[i], options)])

\* the link loop without the affects_link test
LinkContribution_AnyOption(sel) ==
    sel.lib.link_libraries
    \o Flatten([i \in 1..Len(sel.lib.options) |->
          LET opt == sel.lib.options[i]
          IN IF Truthy(OptValue(opt, sel.options))
             THEN Get(opt, "link_libraries_when_enabled", << >>)
             ELSE << >>])

\* what one (lib, options) pair extends link_libs with
LinkContribution(sel) ==
    sel.lib.link_libraries
    \o Flatten([i \in 1..Len(sel.lib.options) |->
          LET opt == sel.lib.options[i]
          IN IF Get(opt, "affects_link", FALSE) /\ Truthy(OptValue(opt, sel.options))
             THEN Get(opt, "link_libraries_when_enabled", << >>)
             ELSE << >>])

\* the de-duplication loop keeping the last occurrence of a name
RECURSIVE Unique_KeepLast(_, _)
Unique_KeepLast(link_libs, unique_libs) ==
    IF link_libs = << >> THEN unique_libs
    ELSE Unique_KeepLast(Tail(link_libs),
                         IF Head(link_libs) \in Range(Tail(link_libs)) THEN unique_libs
                         ELSE Append(unique_libs, Head(link_libs)))

\* "Remove duplicates while preserving order"
RECURSIVE Unique(_, _)
Unique(link_libs, unique_libs) ==
    IF link_libs = << >> THEN unique_libs
    ELSE Unique(Tail(link_libs),
                IF Head(link_libs) \in Range(unique_libs) THEN unique_libs
                ELSE Append(unique_libs, Head(link_libs)))

collect_link_libraries(libraries_with_options) ==
    Unique(Flatten([i \in 1..Len(libraries_with_options) |->
                       LinkContribution(libraries_with_options[i])]),
           << >>)

\* [x for x in xs if Test(x)]
RECURSIVE SelectTesting(_, _)
SelectTesting(lwo, want) ==
    IF lwo = << >> THEN << >>
    ELSE IF (Head(lwo).lib.category = "testing") = want
         THEN <<Head(lwo)>> \o SelectTesting(Tail(lwo), want)
         ELSE SelectTesting(Tail(lwo), want)

\* the "Find maximum required C++ standard" loop
RECURSIVE MaxStandard(_, _)
MaxStandard(max_standard, lwo) ==
    IF lwo = << >> THEN max_standard
    ELSE MaxStandard(IF Get(Head(lwo).lib, "cpp_standard", 11) > max_standard
                     THEN Head(lwo).lib.cpp_standard ELSE max_standard,
                     Tail(lwo))

\* include_tests and testing_framework and testing_framework != "none"
WantsFramework(include_tests, testing_framework) ==
    include_tests /\ Truthy(testing_framework) /\ testing_framework # "none"

\* whether "Add selected testing framework if not already present" reaches
\* get_library_by_id
FrameworkLookup(test_libraries, include_tests, testing_framework) ==
    /\ WantsFramework(include_tests, testing_framework)
    /\ \A i \in 1..Len(test_libraries) : test_libraries[i].lib.id # testing_framework

\* the framework appended instead of inserted at index 0
WithFramework_Appended(test_libraries, include_tests, testing_framework, libs) ==
    IF FrameworkLookup(test_libraries, include_tests, testing_framework)
       /\ Known(libs, testing_framework)
    THEN test_libraries \o <<[lib |-> DictGet(libs, testing_framework), options |-> << >>]>>
    ELSE test_libraries

\* test_libraries after the "Add selected testing framework" block, reading
\* the loaded index libs
WithFramework(test_libraries, include_tests, testing_framework, libs) ==
    IF FrameworkLookup(test_libraries, include_tests, testing_framework)
       /\ Known(libs, testing_framework)
    THEN <<[lib |-> DictGet(libs, testing_framework), options |-> << >>]>> \o test_libraries
    ELSE test_libraries

\* the testing group generate_cmake_lists renders
TestGroup(lwo, include_tests, testing_framework, libs) ==
    WithFramework(SelectTesting(lwo, TRUE), include_tests, testing_framework, libs)

\* max_standard without the update for the added framework
EffectiveStandard_SelectionsOnly(cpp_standard, lwo, include_tests, testing_framework, libs) ==
    MaxStandard(cpp_standard, lwo)

\* max_standard after both updates
EffectiveStandard(cpp_standard, lwo, include_tests, testing_framework, libs) ==
    LET m == MaxStandard(cpp_standard, lwo)
        test_libraries == SelectTesting(lwo, TRUE)
    IN IF FrameworkLookup(test_libraries, include_tests, testing_framework)
          /\ Known(libs, testing_framework)
          /\ Get(DictGet(libs, testing_framework), "cpp_standard", 11) > m
       THEN DictGet(libs, testing_framework).cpp_standard
       ELSE m

\* the acquisition blocks of a group emitted last to first
BlockLines_Reversed(group) ==
    Flatten([i \in 1..Len(group) |->
                generate_library_cmake(group[Len(group) + 1 - i].lib,
                                       group[Len(group) + 1 - i].options)])

\* for lib, options in group: generate_library_cmake(lib, options)
BlockLines(group) ==
    Flatten([i \in 1..Len(group) |-> generate_library_cmake(group[i].lib, group[i].options)])

\* the target_link_libraries(... PUBLIC ...) block of the main library
LinkLines(project_name, link_libs) ==
    IF link_libs # << >>
    THEN <<L("target_link_libraries", project_name, "PUBLIC", 0)>>
         \o [i \in 1..Len(link_libs) |-> L("link", link_libs[i], "", 0)]
    ELSE << >>

\* the lines generate_cmake_lists joins, from the groups and the standard it
\* has computed
CMakeLines(project_name, max_standard, main_libraries, test_libraries, include_tests, build_shared) ==
    <<L("cmake_minimum_required", "3.20", "", 0),
      L("project", project_name, "", 0),
      L("CMAKE_CXX_STANDARD", "", "", max_standard),
      L("BUILD_SHARED_LIBS", "", IF Truthy(build_shared) THEN "ON" ELSE "OFF", 0),
      L("include", "FetchContent", "", 0)>>
    \o (IF main_libraries # << >>
        THEN <<L("section", "Dependencies", "", 0)>> \o BlockLines(main_libraries)
        ELSE << >>)
    \o <<L("section", "Main Library", "", 0),
         L("add_library", project_name, "_lib", 0),
         L("target_include_directories", project_name, "_lib", 0)>>
    \o LinkLines(project_name, collect_link_libraries(main_libraries))
    \o <<L("section", "Main Executable", "", 0),
         L("add_executable", project_name, "src/main.cpp", 0),
         L("target_link_libraries", project_name, "PRIVATE", 0)>>
    \o (IF include_tests /\ test_libraries # << >>
        THEN <<L("section", "Testing", "", 0), L("enable_testing", "", "", 0)>>
             \o BlockLines(test_libraries)
             \o <<L("add_subdirectory", "tests", "", 0)>>
        ELSE << >>)

\* generate_cmake_lists once the loader has answered (ld) the framework
\* lookup, if there was one
CMakeFromLoader(ld, project_name, cpp_standard, lwo, include_tests, testing_framework, build_shared) ==
    IF ld.raised THEN [raised |-> TRUE, st |-> ld, text |-> << >>]
    ELSE [raised |-> FALSE, st |-> ld,
          text |-> CMakeLines(project_name,
                              EffectiveStandard(cpp_standard, lwo, include_tests,
                                                testing_framework, ld.libraries),
                              SelectTesting(lwo, FALSE),
                              TestGroup(lwo, include_tests, testing_framework,
                                        ld.libraries),
                              include_tests, build_shared)]

\* generate_cmake_lists on loader state st: the text, the loader state left
\* behind and whether load_recipes raised
generate_cmake_lists(st, project_name, cpp_standard, lwo, include_tests, testing_framework, build_shared) ==
    CMakeFromLoader(Lookup(st, FrameworkLookup(SelectTesting(lwo, TRUE), include_tests,
                                               testing_framework)),
                    project_name, cpp_standard, lwo, include_tests, testing_framework,
                    build_shared)

----------------------------------------------------------------------------
(* Derived files *)

AnyId(libs, id) == \E i \in 1..Len(libs) : libs[i].id = id

RECURSIVE MainIncludes(_)
MainIncludes(libs) ==
    IF libs = << >> THEN << >>
    ELSE (IF Head(libs).id \in {"nlohmann_json", "spdlog", "fmt", "cli11", "argparse"}
          THEN <<L("include", Head(libs).id, "", 0)>> ELSE << >>)
         \o MainIncludes(Tail(libs))

generate_main_cpp(project_name, libs) ==
    <<L("include", project_name, "hpp", 0), L("include", "iostream", "", 0)>>
    \o MainIncludes(libs)
    \o (IF AnyId(libs, "spdlog") THEN <<L("spdlog_info", project_name, "Starting", 0)>>
        ELSE << >>)
    \o <<L("args", project_name,
           IF AnyId(libs, "cli11") THEN "CLI11"
           ELSE IF AnyId(libs, "argparse") THEN "argparse" ELSE "void", 0),
         L("greet", project_name, "", 0)>>

generate_lib_header(project_name) == <<L("header", project_name, "_HPP", 0)>>

generate_lib_source(project_name, libs) ==
    <<L("include", project_name, "hpp", 0)>>
    \o (IF AnyId(libs, "spdlog") THEN <<L("include", "spdlog", "", 0)>> ELSE << >>)
    \o (IF AnyId(libs, "fmt") THEN <<L("include", "fmt", "", 0)>> ELSE << >>)
    \o <<L("include", "iostream", "", 0),
         L("greet_body", project_name,
           IF AnyId(libs, "spdlog") THEN "spdlog" ELSE "cout", 0),
         L("version_body", project_name, "1.0.0", 0)>>

generate_test_cmake(project_name, test_libraries) ==
    LET link_libs == collect_link_libraries(test_libraries)
        ids == [i \in 1..Len(test_libraries) |-> test_libraries[i].lib]
    IN <<L("add_executable", project_name, "_tests", 0),
         L("target_link_libraries", project_name, "PRIVATE", 0)>>
       \o [i \in 1..Len(link_libs) |-> L("link", link_libs[i], "", 0)]
       \o <<L("discover", project_name,
              IF AnyId(ids, "googletest") THEN "gtest_discover_tests"
              ELSE IF AnyId(ids, "catch2") THEN "catch_discover_tests" ELSE "add_test", 0)>>

generate_test_main(project_name, test_libs_only) ==
    <<L("test_main", project_name,
        IF AnyId(test_libs_only, "googletest") THEN "gtest"
        ELSE IF AnyId(test_libs_only, "catch2") THEN "catch2"
        ELSE IF AnyId(test_libs_only, "doctest") THEN "doctest" ELSE "assert", 0)>>

generate_readme(project_name, libs, cpp_standard) ==
    <<L("readme_title", project_name, "", 0),
      L("readme_compiler", "C++", "", cpp_standard)>>
    \o (IF libs = << >> THEN <<L("readme_dep", "", "No external dependencies.", 0)>>
        ELSE [i \in 1..Len(libs) |-> L("readme_dep", libs[i].name, "", 0)])

generate_gitignore == <<L("gitignore", "", "", 0)>>

CLANG_FORMAT_STYLES ==
    {"Google", "LLVM", "Chromium", "Mozilla", "WebKit", "Microsoft", "GNU"}

generate_clang_format(style) ==
    <<L("BasedOnStyle", IF style \in CLANG_FORMAT_STYLES THEN style ELSE "Google", "", 0)>>

----------------------------------------------------------------------------
(* create_project_zip *)

\* the "for selection in library_selections" loop: unknown ids are skipped
RECURSIVE Resolve(_, _)
Resolve(libs, library_selections) ==
    IF library_selections = << >> THEN << >>
    ELSE (IF Known(libs, Head(library_selections).library_id)
          THEN <<[lib |-> DictGet(libs, Head(library_selections).library_id),
                  options |-> Head(library_selections).options]>>
          ELSE << >>)
         \o Resolve(libs, Tail(library_selections))

\* writestr with the bare relative name, base_path left out
WriteStr_NoBasePath(dir, rel, content, now) ==
    [dir |-> "", rel |-> rel, content |-> content, date_time |-> now]

\* zipfile.ZipFile.writestr(name, data): the entry is stamped with the
\* current local time
WriteStr(dir, rel, content, now) ==
    [dir |-> dir, rel |-> rel, content |-> content, date_time |-> now]

\* [lib for lib, _ in libraries_with_options]
LibsOf(libraries_with_options) ==
    [i \in 1..Len(libraries_with_options) |-> libraries_with_options[i].lib]

\* the writestr calls of create_project_zip, in order
ZipEntries(base_path, project_name, cpp_standard, cmake_text, all_libraries, test_libraries, include_tests, clang_format_style, now) ==
    <<WriteStr(base_path, "CMakeLists.txt", cmake_text, now),
      WriteStr(base_path, "README.md",
               generate_readme(project_name, all_libraries, cpp_standard), now),
      WriteStr(base_path, ".gitignore", generate_gitignore, now),
      WriteStr(base_path, ".clang-format", generate_clang_format(clang_format_style), now),
      WriteStr(base_path, "include/{project_name}/{project_name}.hpp",
               generate_lib_header(project_name), now),
      WriteStr(base_path, "src/main.cpp",
               generate_main_cpp(project_name, all_libraries), now),
      WriteStr(base_path, "src/{project_name}.cpp",
               generate_lib_source(project_name, all_libraries), now)>>
    \o (IF include_tests
        THEN <<WriteStr(base_path, "tests/CMakeLists.txt",
                        generate_test_cmake(project_name, test_libraries), now),
               WriteStr(base_path, "tests/test_main.cpp",
                        generate_test_main(project_name, LibsOf(test_libraries)), now)>>
        ELSE << >>)

\* create_project_zip from the generate_cmake_lists call on: cmake is what
\* that call returned
ZipWritten(cmake, project_name, cpp_standard, libraries_with_options, test_libraries, include_tests, clang_format_style, now) ==
    [raised |-> FALSE, st |-> cmake.st,
     zip |-> ZipEntries(project_name, project_name, cpp_standard, cmake.text,
                        LibsOf(libraries_with_options), test_libraries, include_tests,
                        clang_format_style, now)]

\* create_project_zip after its own framework lookup, answered by ld2
ZipWithFramework(ld2, project_name, cpp_standard, libraries_with_options, include_tests, testing_framework, build_shared, clang_format_style, now) ==
    IF ld2.raised THEN [raised |-> TRUE, st |-> ld2, zip |-> << >>]
    ELSE ZipWritten(generate_cmake_lists(ld2, project_name, cpp_standard,
                                         libraries_with_options, include_tests,
                                         testing_framework, build_shared),
                    project_name, cpp_standard, libraries_with_options,
                    WithFramework(SelectTesting(libraries_with_options, TRUE),
                                  include_tests, testing_framework, ld2.libraries),
                    include_tests, clang_format_style, now)

\* create_project_zip after the selection loop, which left ld1 and
\* libraries_with_options
ZipSelected(ld1, project_name, cpp_standard, libraries_with_options, include_tests, testing_framework, build_shared, clang_format_style, now) ==
    ZipWithFramework(Lookup(ld1, FrameworkLookup(SelectTesting(libraries_with_options, TRUE),
                                                 include_tests, testing_framework)),
                     project_name, cpp_standard, libraries_with_options, include_tests,
                     testing_framework, build_shared, clang_format_style, now)

\* create_project_zip after the first get_library_by_id of the selection
\* loop, answered by ld1
ZipFromLoader(ld1, project_name, cpp_standard, library_selections, include_tests, testing_framework, build_shared, clang_format_style, now) ==
    IF ld1.raised THEN [raised |-> TRUE, st |-> ld1, zip |-> << >>]
    ELSE ZipSelected(ld1, project_name, cpp_standard,
                     Resolve(ld1.libraries, library_selections), include_tests,
                     testing_framework, build_shared, clang_format_style, now)

create_project_zip(st, project_name, cpp_standard, library_selections, include_tests, testing_framework, build_shared, clang_format_style, now) ==
    ZipFromLoader(Lookup(st, library_selections # << >>), project_name, cpp_standard,
                  library_selections, include_tests, testing_framework, build_shared,
                  clang_format_style, now)

----------------------------------------------------------------------------
(* Requests *)

\* the characters of each project name a client may send
NameChars ==
    ("demo_1" :> <<"d", "e", "m", "o", "_", "1">>)
    @@ ("9lives" :> <<"9", "l", "i", "v", "e", "s">>)
    @@ ("demo\n" :> <<"d", "e", "m", "o", "\n">>)
    @@ ("" :> << >>)
    @@ ("42" :> <<"4", "2">>)
    @@ ("src" :> <<"s", "r", "c">>)

\* the project names of the ProjectConfig values submitted to the service
Names == {"demo_1", "9lives"}

Letters == {"d", "e", "m", "o", "l", "i", "v", "s", "r", "c"}
Digits == {"0", "1", "2", "4", "9"}

\* re.match(r'^[a-zA-Z][a-zA-Z0-9_]*$', name): "$" also matches just before
\* a trailing newline
NameMatches(name) ==
    LET cs == NameChars[name]
        n == IF Len(cs) > 0 /\ cs[Len(cs)] = "\n" THEN Len(cs) - 1 ELSE Len(cs)
    IN /\ n >= 1
       /\ cs[1] \in Letters
       /\ \A i \in 2..n : cs[i] \in Letters \cup Digits \cup {"_"}

Sel(library_id, options) == [library_id |-> library_id, options |-> options]

\* LibrarySelection values a client may send
Selections ==
    {Sel("fmt", << >>), Sel("asio", << >>), Sel("asio", ("asio_ssl" :> "True")),
     Sel("googletest", << >>), Sel("catch2", << >>),
     Sel("not_a_real_lib", << >>), Sel("boost", << >>)}

Standards == {11, 17}
Frameworks == {"googletest", "none", "doctest", "fmt"}
SharedFlags == {"False"}
Styles == {"Google"}

\* ProjectConfig values that pass pydantic validation
Configs ==
    [project_name : Names,
     cpp_standard : Standards,
     libraries : SeqsUpTo(Selections, MaxSel),
     include_tests : BOOLEAN,
     testing_framework : Frameworks,
     build_shared : SharedFlags,
     clang_format_style : Styles]

----------------------------------------------------------------------------
(* Handlers: backend/main.py *)

NoLibrary == << >>

Response(op, status, error, detail, body, archive, zip_called) ==
    [op |-> op, status |-> status, error |-> error, detail |-> detail, body |-> body,
     archive |-> archive, zip_called |-> zip_called, library |-> NoLibrary, count |-> 0]

NoResponse == Response("none", 0, "", << >>, << >>, << >>, FALSE)

\* the validation loop stopping at the first unknown id
RECURSIVE InvalidLibs_FirstOnly(_, _)
InvalidLibs_FirstOnly(libs, selections) ==
    IF selections = << >> THEN << >>
    ELSE IF Known(libs, Head(selections).library_id)
         THEN InvalidLibs_FirstOnly(libs, Tail(selections))
         ELSE <<Head(selections).library_id>>

\* [s.library_id for s in selections if not get_library_by_id(s.library_id)]
RECURSIVE InvalidLibs(_, _)
InvalidLibs(libs, selections) ==
    IF selections = << >> THEN << >>
    ELSE (IF Known(libs, Head(selections).library_id) THEN << >>
          ELSE <<Head(selections).library_id>>)
         \o InvalidLibs(libs, Tail(selections))

Keep(st) == [libraries |-> st.libraries, loaded |-> st.loaded]

\* the try block of generate_project and generate_from_cargo: z is what
\* create_project_zip returned
Zipped(op, z) ==
    IF z.raised
    THEN [st |-> Keep(z.st),
          resp |-> Response(op, 500, "generate", << >>, << >>, << >>, TRUE)]
    ELSE [st |-> Keep(z.st),
          resp |-> Response(op, 200, "", << >>, << >>, z.zip, TRUE)]

\* the validation of the library ids, the loader having answered ld
Validated(op, ld, cfg, include_tests, now) ==
    IF ld.raised
    THEN [st |-> Keep(ld),
          resp |-> Response(op, 500, "load", << >>, << >>, << >>, FALSE)]
    ELSE IF InvalidLibs(ld.libraries, cfg.libraries) # << >>
    THEN [st |-> Keep(ld),
          resp |-> Response(op, 400, "invalid_libs",
                            InvalidLibs(ld.libraries, cfg.libraries), << >>, << >>, FALSE)]
    ELSE Zipped(op, create_project_zip(ld, cfg.project_name, cfg.cpp_standard,
                                       cfg.libraries, include_tests,
                                       cfg.testing_framework, cfg.build_shared,
                                       cfg.clang_format_style, now))

\* the part of generate_project and generate_from_cargo after the name check
ValidateAndZip(op, st, cfg, include_tests, now) ==
    Validated(op, Lookup(st, cfg.libraries # << >>), cfg, include_tests, now)

NameError(op, st) ==
    [st |-> Keep(st), resp |-> Response(op, 400, "name", << >>, << >>, << >>, FALSE)]

generate_project(st, cfg, now) ==
    IF ~NameMatches(cfg.project_name) THEN NameError("generate", st)
    ELSE ValidateAndZip("generate", st, cfg, cfg.include_tests, now)

\* the preview response, g being what generate_cmake_lists returned
Rendering(op, g) ==
    IF g.raised
    THEN [st |-> Keep(g.st),
          resp |-> Response(op, 500, "load", << >>, << >>, << >>, FALSE)]
    ELSE [st |-> Keep(g.st),
          resp |-> Response(op, 200, "", << >>, g.text, << >>, FALSE)]

\* the selection loop of a preview handler, the loader having answered ld
Resolved(op, ld, cfg, testing_framework, build_shared) ==
    IF ld.raised
    THEN [st |-> Keep(ld),
          resp |-> Response(op, 500, "load", << >>, << >>, << >>, FALSE)]
    ELSE Rendering(op, generate_cmake_lists(ld, cfg.project_name, cfg.cpp_standard,
                                            Resolve(ld.libraries, cfg.libraries),
                                            cfg.include_tests, testing_framework,
                                            build_shared))

\* the part of preview_cmake and preview_cmake_legacy after the name check
ResolveAndRender(op, st, cfg, testing_framework, build_shared) ==
    Resolved(op, Lookup(st, cfg.libraries # << >>), cfg, testing_framework, build_shared)

preview_cmake(st, cfg) ==
    IF ~NameMatches(cfg.project_name) THEN NameError("preview", st)
    ELSE ResolveAndRender("preview", st, cfg, cfg.testing_framework, cfg.build_shared)

\* the query string of GET /api/preview carries the name, the standard, the
\* ids and include_tests; every selection gets {} as options, and the fifth
\* positional argument of generate_cmake_lists receives False
LegacyQuery(cfg) ==
    [cfg EXCEPT !.libraries =
        [i \in 1..Len(cfg.libraries) |-> Sel(cfg.libraries[i].library_id, << >>)]]

preview_cmake_legacy(st, cfg) ==
    IF ~NameMatches(cfg.project_name) THEN NameError("preview_legacy", st)
    ELSE ResolveAndRender("preview_legacy", st, LegacyQuery(cfg), PyFalse, "False")

\* a cpp-cargo.yaml document can state cfg when no dependency key repeats
CargoExpressible(cfg) ==
    \A i, j \in 1..Len(cfg.libraries) :
        cfg.libraries[i].library_id = cfg.libraries[j].library_id => i = j

generate_from_cargo(st, cfg, now) ==
    IF ~NameMatches(cfg.project_name) THEN NameError("cargo", st)
    ELSE ValidateAndZip("cargo", st, cfg, cfg.testing_framework # "none", now)

----------------------------------------------------------------------------
(* The service: handlers applied to the client's config *)

StartDisks ==
    {<<"fmt.yaml", "asio.yaml", "googletest.yaml", "catch2.yaml">>,
     <<"_schema.yaml", "catch2.yaml", "asio.yaml", "broken.yaml", "fmt.yaml">>}

Init ==
    /\ dirExists \in BOOLEAN
    /\ disk \in StartDisks
    /\ libraries = << >>
    /\ loaded = FALSE
    /\ clock = 0
    /\ config \in Configs
    /\ resp = NoResponse
    /\ calls = NoCalls

Generate ==
    \E r \in {generate_project(LoaderState, config, clock)} :
       /\ libraries' = r.st.libraries
       /\ loaded' = r.st.loaded
       /\ resp' = r.resp
       /\ UNCHANGED <<dirExists, disk, clock, config, calls>>

Preview ==
    \E r \in {preview_cmake(LoaderState, config)} :
       /\ libraries' = r.st.libraries
       /\ loaded' = r.st.loaded
       /\ resp' = r.resp
       /\ UNCHANGED <<dirExists, disk, clock, config, calls>>

PreviewLegacy ==
    \E r \in {preview_cmake_legacy(LoaderState, config)} :
       /\ libraries' = r.st.libraries
       /\ loaded' = r.st.loaded
       /\ resp' = r.resp
       /\ UNCHANGED <<dirExists, disk, clock, config, calls>>

Cargo ==
    /\ CargoExpressible(config)
    /\ \E r \in {generate_from_cargo(LoaderState, config, clock)} :
          /\ libraries' = r.st.libraries
          /\ loaded' = r.st.loaded
          /\ resp' = r.resp
          /\ UNCHANGED <<dirExists, disk, clock, config, calls>>

Tick ==
    /\ clock < MaxClock
    /\ clock' = clock + 1
    /\ UNCHANGED <<dirExists, disk, libraries, loaded, config, calls, resp>>

Next == Generate \/ Preview \/ PreviewLegacy \/ Cargo \/ Tick

Spec == Init /\ [][Next]_vars

----------------------------------------------------------------------------
(* Reading a response *)

Zips == {"generate", "cargo"}
Previews == {"preview", "preview_legacy"}

\* the include_tests and testing_framework the handler op hands to the generator
CallTests(op) == IF op = "cargo" THEN config.testing_framework # "none" ELSE config.include_tests
CallFramework(op) == IF op = "preview_legacy" THEN PyFalse ELSE config.testing_framework

Rendered == resp.status = 200 /\ resp.op \in Zips \cup Previews

\* the top-level CMakeLists.txt of a successful response
Manifest ==
    IF resp.op \in Previews THEN resp.body
    ELSE resp.archive[CHOOSE i \in 1..Len(resp.archive) : resp.archive[i].rel = "CMakeLists.txt"].content

Count(s, Test(_)) == Cardinality({i \in 1..Len(s) : Test(s[i])})

CatalogIds == {libraries[i].id : i \in 1..Len(libraries)}

CatalogLib(id) == libraries[CHOOSE i \in 1..Len(libraries) : libraries[i].id = id]

SelectedIds == {config.libraries[i].library_id : i \in 1..Len(config.libraries)}

UnknownSelected == SelectedIds \ CatalogIds

\* first line of the testing block of manifest m, 0 when there is none
TestingStart(m) ==
    IF \E i \in 1..Len(m) : m[i].kind = "enable_testing"
    THEN CHOOSE i \in 1..Len(m) : m[i].kind = "enable_testing"
    ELSE 0

\* the names heading the acquisition blocks of the testing block, in order
TestingBlockNames(m) ==
    IF TestingStart(m) = 0 THEN << >>
    ELSE LET rest == SubSeq(m, TestingStart(m), Len(m))
             IsComment(l) == l.kind = "comment"
         IN [i \in 1..Len(SelectSeq(rest, IsComment)) |-> SelectSeq(rest, IsComment)[i].id]

MainBlockNames(m) ==
    LET upto == IF TestingStart(m) = 0 THEN m ELSE SubSeq(m, 1, TestingStart(m) - 1)
        IsComment(l) == l.kind = "comment"
    IN [i \in 1..Len(SelectSeq(upto, IsComment)) |-> SelectSeq(upto, IsComment)[i].id]

ManifestStandard(m) == m[CHOOSE i \in 1..Len(m) : m[i].kind = "CMAKE_CXX_STANDARD"].num

SetMax(S) == CHOOSE x \in S : \A y \in S : y <= x

----------------------------------------------------------------------------
(* C1 *)

\* C1: a generate or bulk-import request with a well-formed name that selects
\* ids absent from the (loaded) catalog gets 400, its detail names exactly the
\* unknown ids, and create_project_zip is not invoked: no archive.
C1_UnknownIdsRejected ==
    (/\ resp.op \in Zips
     /\ NameMatches(config.project_name)
     /\ loaded
     /\ UnknownSelected # {})
    => (/\ resp.status = 400
        /\ Range(resp.detail) = UnknownSelected
        /\ ~resp.zip_called
        /\ resp.archive = << >>)

C1_Witness ==
    /\ resp.op \in Zips
    /\ resp.status = 400
    /\ Cardinality(Range(resp.detail)) = 2

\* C1 with one known and one unknown id selected
C1_WitnessMixed ==
    /\ resp.op = "cargo"
    /\ resp.status = 400
    /\ SelectedIds \cap CatalogIds # {}

----------------------------------------------------------------------------
(* C2 *)

\* C2: preview (POST and legacy GET) never drops an unknown library: a
\* selection list with an id absent from the catalog ends in a validation
\* error, and no manifest rendered from the other selections is returned.
C2_PreviewRejectsUnknown ==
    (/\ resp.op \in Previews
     /\ NameMatches(config.project_name)
     /\ loaded
     /\ UnknownSelected # {})
    => (resp.status = 400 /\ resp.body = << >>)

----------------------------------------------------------------------------
(* C3 *)

\* the testing framework is auto-added: tests are wanted, the framework is in
\* the catalog and no selected testing-category library has its id
AutoAdded(op) ==
    /\ CallTests(op)
    /\ CallFramework(op) \notin {"none", PyFalse, ""}
    /\ CallFramework(op) \in CatalogIds
    /\ ~(CallFramework(op) \in SelectedIds /\ CatalogLib(CallFramework(op)).category = "testing")

RequiredStandards(op) ==
    {config.cpp_standard}
    \cup {CatalogLib(id).cpp_standard : id \in SelectedIds \cap CatalogIds}
    \cup (IF AutoAdded(op) THEN {CatalogLib(CallFramework(op)).cpp_standard} ELSE {})

\* C3: CMAKE_CXX_STANDARD is the maximum of the requested standard, the
\* standard of every resolved selected library and the standard of the
\* auto-added testing framework.
C3_StandardIsMaximum ==
    Rendered => ManifestStandard(Manifest) = SetMax(RequiredStandards(resp.op))

\* the auto-added framework alone raises the standard
C3_Witness ==
    /\ Rendered
    /\ AutoAdded(resp.op)
    /\ ManifestStandard(Manifest) = 14
    /\ config.cpp_standard = 11

----------------------------------------------------------------------------
(* C4 *)

\* C4: with include_tests true and a testing_framework other than "none",
\* the testing group of the manifest holds exactly one entry for it.
C4_FrameworkExactlyOnce ==
    (/\ Rendered
     /\ resp.op # "preview_legacy"
     /\ CallTests(resp.op)
     /\ CallFramework(resp.op) # "none")
    => LET fw == CallFramework(resp.op)
           IsFw(name) == fw \in CatalogIds /\ name = CatalogLib(fw).name
       IN Count(TestingBlockNames(Manifest), IsFw) = 1

----------------------------------------------------------------------------
(* C5 *)

\* C5: include_tests true, testing_framework "googletest" (a catalog
\* library) and no selection with id googletest: the testing block has
\* exactly one googletest entry, it comes before every selected testing
\* library, and exactly one acquisition directive is emitted for it.
C5_GoogletestAutoAdded ==
    (/\ Rendered
     /\ CallTests(resp.op)
     /\ CallFramework(resp.op) = "googletest"
     /\ "googletest" \notin SelectedIds
     /\ "googletest" \in CatalogIds)
    => LET names == TestingBlockNames(Manifest)
           IsGtest(name) == name = CatalogLib("googletest").name
           Declares(l) == l.kind = "FetchContent_Declare" /\ l.id = "googletest"
       IN /\ Count(names, IsGtest) = 1
          /\ names[1] = CatalogLib("googletest").name
          /\ Count(Manifest, Declares) = 1
          /\ \A i \in 1..Len(Manifest) :
                 Declares(Manifest[i]) => i > TestingStart(Manifest)

\* googletest added in front of a selected catch2
C5_Witness ==
    /\ Rendered
    /\ CallTests(resp.op)
    /\ CallFramework(resp.op) = "googletest"
    /\ "googletest" \notin SelectedIds
    /\ Len(TestingBlockNames(Manifest)) = 2

----------------------------------------------------------------------------
(* C6 *)

\* C6: with testing_framework "none" the manifest has no testing block.
C6_NoneMeansNoTestingBlock ==
    (Rendered /\ CallFramework(resp.op) = "none")
    => \A i \in 1..Len(Manifest) :
           Manifest[i].kind \notin {"enable_testing", "add_subdirectory"}

----------------------------------------------------------------------------
(* C9 *)

\* C9: two create_project_zip calls with the same config and catalog return
\* identical archives, whatever the time between them.
C9_ByteIdentical ==
    [][(/\ resp.op \in Zips /\ resp.status = 200
        /\ resp'.op = resp.op /\ resp'.status = 200
        /\ libraries' = libraries)
       => resp'.archive = resp.archive]_vars

----------------------------------------------------------------------------
(* collect_link_libraries applied to selections resolved against a loaded catalog *)

\* option maps a client may send for asio
LinkOptionMaps ==
    {ssl @@ ex @@ lib :
        ssl \in {<< >>} \cup {("asio_ssl" :> v) : v \in {"True", "False", "None"}},
        ex \in {<< >>, ("asio_examples" :> "True")},
        lib \in {<< >>} \cup {("asio_stdlib" :> v) : v \in {"'x'", "''"}}}

LinkSelections ==
    {Sel("asio", m) : m \in LinkOptionMaps}
    \cup {Sel("fmt", << >>), Sel("googletest", << >>)}

LinkConfigs ==
    [project_name : {"demo_1"},
     cpp_standard : {17},
     libraries : SeqsUpTo(LinkSelections, MaxSel),
     include_tests : {TRUE},
     testing_framework : {"googletest"},
     build_shared : SharedFlags,
     clang_format_style : Styles]

LinkDisks ==
    {<<"fmt.yaml", "asio.yaml", "googletest.yaml">>,
     <<"asio.yaml", "fmt.yaml", "fmt_v2.yaml", "googletest.yaml">>}

InitLink ==
    /\ dirExists = TRUE
    /\ disk \in LinkDisks
    /\ libraries = LoadLoop(<< >>, disk)
    /\ loaded = TRUE
    /\ clock = 0
    /\ config \in LinkConfigs
    /\ resp = NoResponse
    /\ calls = NoCalls

CollectLink ==
    /\ resp' = Response("collect_link_libraries", 200, "",
                        collect_link_libraries(Resolve(libraries, config.libraries)),
                        << >>, << >>, FALSE)
    /\ UNCHANGED <<dirExists, disk, libraries, loaded, clock, config, calls>>

NextLink == CollectLink

SpecLink == InitLink /\ [][NextLink]_vars

----------------------------------------------------------------------------
(* The catalog under edits of the recipes directory *)

CatFiles ==
    {"fmt.yaml", "googletest.yaml", "_schema.yaml", "broken.yaml", "noid.yaml",
     "fmt_v2.yaml", "empty.yaml"}

QueryIds == {"fmt", "googletest", "schema", "not_a_real_lib"}

DefaultConfig ==
    [project_name |-> "demo_1", cpp_standard |-> 17, libraries |-> << >>,
     include_tests |-> TRUE, testing_framework |-> "googletest",
     build_shared |-> "False", clang_format_style |-> "Google"]

InitCat ==
    /\ dirExists = TRUE
    /\ disk = << >>
    /\ libraries = << >>
    /\ loaded = FALSE
    /\ clock = 0
    /\ config = DefaultConfig
    /\ resp = NoResponse
    /\ calls = NoCalls

\* a recipe document appears in the directory
AddDoc ==
    /\ dirExists
    /\ Len(disk) < MaxDocs
    /\ \E f \in CatFiles \ Range(disk), pos \in 0..Len(disk) :
           disk' = SubSeq(disk, 1, pos) \o <<f>> \o SubSeq(disk, pos + 1, Len(disk))
    /\ UNCHANGED <<dirExists, libraries, loaded, clock, config, calls, resp>>

\* a recipe document is deleted
RemoveDoc ==
    /\ \E i \in 1..Len(disk) :
           disk' = SubSeq(disk, 1, i - 1) \o SubSeq(disk, i + 1, Len(disk))
    /\ UNCHANGED <<dirExists, libraries, loaded, clock, config, calls, resp>>

\* the recipes directory is deleted with its content
RemoveDir ==
    /\ dirExists
    /\ dirExists' = FALSE
    /\ disk' = << >>
    /\ UNCHANGED <<libraries, loaded, clock, config, calls, resp>>

CreateDir ==
    /\ ~dirExists
    /\ dirExists' = TRUE
    /\ UNCHANGED <<disk, libraries, loaded, clock, config, calls, resp>>

\* POST /api/reload-recipes: reload_recipes(), then len(get_all_libraries())
ReloadRecipes ==
    LET r == reload_recipes(LoaderState)
    IN /\ libraries' = r.libraries
       /\ loaded' = r.loaded
       /\ resp' = IF r.raised
                  THEN Response("reload", 500, "load", << >>, << >>, << >>, FALSE)
                  ELSE [Response("reload", 200, "", << >>, << >>, << >>, FALSE)
                           EXCEPT !.count = Len(r.libraries)]
       /\ UNCHANGED <<dirExists, disk, clock, config, calls>>

\* GET /api/libraries/{library_id}
GetLibrary ==
    \E library_id \in QueryIds :
        LET r == load_recipes(LoaderState)
        IN /\ libraries' = r.libraries
           /\ loaded' = r.loaded
           /\ resp' = IF r.raised
                      THEN Response("get_library", 500, "load", << >>, << >>, << >>, FALSE)
                      ELSE IF ~Known(r.libraries, library_id)
                      THEN Response("get_library", 404, "not_found", <<library_id>>,
                                    << >>, << >>, FALSE)
                      ELSE [Response("get_library", 200, "", <<library_id>>, << >>, << >>,
                                     FALSE)
                               EXCEPT !.library = DictGet(r.libraries, library_id)]
           /\ UNCHANGED <<dirExists, disk, clock, config, calls>>

\* list(self._libraries.values())
Values(libs) == [i \in 1..Len(libs) |-> libs[i].id]

\* [lib for lib in self._libraries.values() if lib["category"] == category]
RECURSIVE InCategory(_, _)
InCategory(libs, category) ==
    IF libs = << >> THEN << >>
    ELSE (IF Head(libs).category = category THEN <<Head(libs).id>> ELSE << >>)
         \o InCategory(Tail(libs), category)

\* the characters of str.lower() of the names and queries in use
LowerChars ==
    ("fmt" :> <<"f", "m", "t">>)
    @@ ("fmt 11" :> <<"f", "m", "t", " ", "1", "1">>)
    @@ ("Google Test" :> <<"g", "o", "o", "g", "l", "e", " ", "t", "e", "s", "t">>)
    @@ ("FMT" :> <<"f", "m", "t">>)
    @@ ("test" :> <<"t", "e", "s", "t">>)
    @@ ("zz" :> <<"z", "z">>)
    @@ ("f" :> <<"f">>)

\* query in text, both lowered
IsIn(query, text) ==
    \E i \in 0..(Len(text) - Len(query)) : SubSeq(text, i + 1, i + Len(query)) = query

\* the loop of search_libraries; the documents carry no description and no
\* tags, so the loader gave them "" and []
RECURSIVE SearchLoop(_, _)
SearchLoop(libs, query) ==
    IF libs = << >> THEN << >>
    ELSE (IF IsIn(LowerChars[query], LowerChars[Head(libs).name])
          THEN <<Head(libs).id>> ELSE << >>)
         \o SearchLoop(Tail(libs), query)

CategoryIds == {"formatting", "testing", "gui"}

SearchQueries == {"FMT", "test", "zz", "f"}

LoadError(op) == Response(op, 500, "load", << >>, << >>, << >>, FALSE)

\* GET /api/libraries
GetAllLibraries ==
    \E r \in {load_recipes(LoaderState)} :
        /\ libraries' = r.libraries
        /\ loaded' = r.loaded
        /\ resp' = IF r.raised THEN LoadError("get_all_libraries")
                   ELSE [Response("get_all_libraries", 200, "", Values(r.libraries),
                                  << >>, << >>, FALSE)
                            EXCEPT !.count = Len(r.libraries)]
        /\ UNCHANGED <<dirExists, disk, clock, config, calls>>

\* GET /api/categories/{category_id}/libraries
GetCategoryLibraries ==
    \E category_id \in CategoryIds, r \in {load_recipes(LoaderState)} :
        /\ libraries' = r.libraries
        /\ loaded' = r.loaded
        /\ resp' = IF r.raised THEN LoadError("get_category_libraries")
                   ELSE IF InCategory(r.libraries, category_id) = << >>
                   THEN Response("get_category_libraries", 404, "not_found",
                                 << >>, << >>, << >>, FALSE)
                   ELSE [Response("get_category_libraries", 200, "",
                                  InCategory(r.libraries, category_id), << >>, << >>, FALSE)
                            EXCEPT !.count = Len(InCategory(r.libraries, category_id))]
        /\ UNCHANGED <<dirExists, disk, clock, config, calls>>

\* GET /api/search?q=...
Search ==
    \E q \in SearchQueries :
        IF Len(LowerChars[q]) < 2
        THEN /\ resp' = Response("search", 400, "query", << >>, << >>, << >>, FALSE)
             /\ UNCHANGED <<dirExists, disk, libraries, loaded, clock, config, calls>>
        ELSE \E r \in {load_recipes(LoaderState)} :
                /\ libraries' = r.libraries
                /\ loaded' = r.loaded
                /\ resp' = IF r.raised THEN LoadError("search")
                           ELSE [Response("search", 200, "", SearchLoop(r.libraries, q),
                                          << >>, << >>, FALSE)
                                    EXCEPT !.count = Len(SearchLoop(r.libraries, q))]
                /\ UNCHANGED <<dirExists, disk, clock, config, calls>>

NextCat ==
    \/ AddDoc \/ RemoveDoc \/ RemoveDir \/ CreateDir \/ ReloadRecipes \/ GetLibrary
    \/ GetAllLibraries \/ GetCategoryLibraries \/ Search

SpecCat == InitCat /\ [][NextCat]_vars

----------------------------------------------------------------------------
(* C7 *)

\* the (Library, options) pairs collect_link_libraries was applied to
LinkInput == Resolve(libraries, config.libraries)

\* every name the pairs contribute, in visiting order, repeats included
Contributed == Flatten([i \in 1..Len(LinkInput) |-> LinkContribution(LinkInput[i])])

FirstIndex(s, x) == CHOOSE i \in 1..Len(s) : s[i] = x /\ \A j \in 1..(i - 1) : s[j] # x

\* C7: collect_link_libraries returns every contributed link name exactly
\* once, ordered by first occurrence.
C7_LinkListUniqueInOrder ==
    resp.op = "collect_link_libraries"
    => LET r == resp.detail
       IN /\ \A i, j \in 1..Len(r) : r[i] = r[j] => i = j
          /\ Range(r) = Range(Contributed)
          /\ \A i, j \in 1..Len(r) :
                 i < j => FirstIndex(Contributed, r[i]) < FirstIndex(Contributed, r[j])

\* pthread is listed by both libraries and is kept where fmt put it first
C7_Witness ==
    /\ resp.op = "collect_link_libraries"
    /\ Len(LinkInput) = 2
    /\ LinkInput[1].lib.id = "fmt"
    /\ LinkInput[2].lib.id = "googletest"
    /\ resp.detail = <<"fmt::fmt", "pthread", "GTest::gtest_main">>

----------------------------------------------------------------------------
(* C8 *)

\* user override if the option id is in the selection's map, else the recipe
\* default, else None
EffectiveValue(opt, options) ==
    IF opt.id \in DOMAIN options THEN options[opt.id]
    ELSE IF "default" \in DOMAIN opt THEN opt.default ELSE PyNone

\* the option is link-affecting and switched on in pair sel
Enabled(opt, sel) ==
    /\ "affects_link" \in DOMAIN opt
    /\ opt.affects_link
    /\ EffectiveValue(opt, sel.options) \notin {"False", "None", "0", "''"}

BaseNames == UNION {Range(LinkInput[i].lib.link_libraries) : i \in 1..Len(LinkInput)}

OptionsOf(sel) == Range(sel.lib.options)

ExtraNames(opt) ==
    IF "link_libraries_when_enabled" \in DOMAIN opt
    THEN Range(opt.link_libraries_when_enabled) ELSE {}

\* C8: the extra link libraries of an option are in the aggregated list iff
\* the option has affects_link and a truthy effective value (names that a
\* base list contributes anyway are left aside).
C8_ExtrasIffEnabled ==
    resp.op = "collect_link_libraries"
    => \A i \in 1..Len(LinkInput) : \A opt \in OptionsOf(LinkInput[i]) :
           \A n \in ExtraNames(opt) \ BaseNames :
               n \in Range(resp.detail)
               <=> \E k \in 1..Len(LinkInput) : \E o \in OptionsOf(LinkInput[k]) :
                       Enabled(o, LinkInput[k]) /\ n \in ExtraNames(o)

\* asio_ssl (default false) overridden to true adds OpenSSL::SSL
C8_Witness ==
    /\ resp.op = "collect_link_libraries"
    /\ Len(LinkInput) = 1
    /\ LinkInput[1].lib.id = "asio"
    /\ LinkInput[1].options = ("asio_ssl" :> "True")
    /\ resp.detail = <<"pthread", "asio", "OpenSSL::SSL">>

\* asio_ssl left at its default adds nothing
C8_WitnessDefault ==
    /\ resp.op = "collect_link_libraries"
    /\ Len(LinkInput) = 1
    /\ LinkInput[1].lib.id = "asio"
    /\ LinkInput[1].options = << >>
    /\ resp.detail = <<"pthread", "asio">>

----------------------------------------------------------------------------
(* C10 *)

\* the documents of directory listing d that load_recipes indexes
ValidFiles(d) ==
    {f \in Range(d) : /\ f \notin {"_schema.yaml"}
                      /\ Documents[f].yaml = "ok"
                      /\ "id" \in DOMAIN Documents[f].data}

\* library lib is what the document in file f describes
Describes(f, lib) ==
    LET data == Documents[f].data
    IN /\ lib.id = data.id
       /\ lib.name = data.name
       /\ lib.category = data.category
       /\ "cpp_standard" \in DOMAIN data => lib.cpp_standard = data.cpp_standard
       /\ "link_libraries" \in DOMAIN data => lib.link_libraries = data.link_libraries

\* index libs holds exactly the valid documents of listing d, one entry per id
IndexMatches(libs, d) ==
    /\ {libs[i].id : i \in 1..Len(libs)} = {Documents[f].data.id : f \in ValidFiles(d)}
    /\ \A i, j \in 1..Len(libs) : libs[i].id = libs[j].id => i = j
    /\ \A i \in 1..Len(libs) : \E f \in ValidFiles(d) : Describes(f, libs[i])

\* C10: when reload_recipes completes, the index equals the valid recipe
\* documents in the directory at that time: no added document is missing and
\* no removed one survives.
C10_ReloadMatchesDirectory ==
    [][(ReloadRecipes /\ resp'.status = 200) => (loaded' /\ IndexMatches(libraries', disk'))]_vars

\* a reload has picked up two libraries that were added after construction
C10_Witness ==
    /\ resp.op = "reload"
    /\ resp.status = 200
    /\ resp.count = 2
    /\ IndexMatches(libraries, disk)

\* after a document was removed, a reload left a smaller index behind and
\* the removed library is reported not found
C10_WitnessRemoved ==
    /\ resp.op = "get_library"
    /\ resp.status = 404
    /\ resp.detail = <<"googletest">>
    /\ loaded
    /\ libraries # << >>

----------------------------------------------------------------------------
(* The loader entered by two threads: reload_recipes in one,                *)
(* get_all_libraries in the other.  Every step is one statement of          *)
(* recipe_loader.py; the loader takes no lock.                              *)

ConcDisks ==
    {<<"fmt.yaml", "googletest.yaml">>,
     <<"_schema.yaml", "broken.yaml", "fmt.yaml", "fmt_v2.yaml">>,
     <<"googletest.yaml", "noid.yaml", "fmt.yaml">>}

\* the index is either not loaded yet or was loaded from an earlier listing
InitConc ==
    /\ \/ dirExists = TRUE /\ disk \in ConcDisks
       \/ dirExists = FALSE /\ disk = << >>
    /\ \/ loaded = FALSE /\ libraries = << >>
       \/ loaded = TRUE /\ \E prev \in ConcDisks : libraries = LoadLoop(<< >>, prev)
    /\ clock = 0
    /\ config = DefaultConfig
    /\ resp = NoResponse
    /\ calls = NoCalls

IdsOf(libs) == [i \in 1..Len(libs) |-> libs[i].id]

\* reload_recipes: self._libraries = {}
ReloadClear ==
    /\ calls["reloader"].pc = "idle"
    /\ libraries' = << >>
    /\ calls' = [calls EXCEPT !["reloader"] = Frame("unload", << >>, libraries)]
    /\ UNCHANGED <<dirExists, disk, loaded, clock, config, resp>>

\* reload_recipes: self._loaded = False, then the call of load_recipes
ReloadUnload ==
    /\ calls["reloader"].pc = "unload"
    /\ loaded' = FALSE
    /\ calls' = [calls EXCEPT !["reloader"].pc = "check"]
    /\ UNCHANGED <<dirExists, disk, libraries, clock, config, resp>>

\* get_all_libraries is entered: the call of load_recipes
QueryCall ==
    /\ calls["reader"].pc = "idle"
    /\ calls' = [calls EXCEPT !["reader"] = Frame("check", << >>, libraries)]
    /\ UNCHANGED <<dirExists, disk, libraries, loaded, clock, config, resp>>

\* load_recipes: if self._loaded: return
LoadCheck(t) ==
    /\ calls[t].pc = "check"
    /\ calls' = [calls EXCEPT ![t].pc = IF loaded THEN "return" ELSE "glob"]
    /\ UNCHANGED <<dirExists, disk, libraries, loaded, clock, config, resp>>

\* load_recipes: the exists() test and the directory listing of glob
LoadGlob(t) ==
    /\ calls[t].pc = "glob"
    /\ IF ~dirExists
       THEN /\ calls' = [calls EXCEPT ![t] = Idle]
            /\ resp' = Response(t, 500, "load", << >>, << >>, << >>, FALSE)
       ELSE /\ calls' = [calls EXCEPT ![t].pc = "loop", ![t].files = disk]
            /\ UNCHANGED resp
    /\ UNCHANGED <<dirExists, disk, libraries, loaded, clock, config>>

\* load_recipes: one turn of the loop over the listed files
LoadFile(t) ==
    /\ calls[t].pc = "loop"
    /\ calls[t].files # << >>
    /\ libraries' = LoadLoop(libraries, <<Head(calls[t].files)>>)
    /\ calls' = [calls EXCEPT ![t].files = Tail(calls[t].files)]
    /\ UNCHANGED <<dirExists, disk, loaded, clock, config, resp>>

\* load_recipes: self._loaded = True
LoadDone(t) ==
    /\ calls[t].pc = "loop"
    /\ calls[t].files = << >>
    /\ loaded' = TRUE
    /\ calls' = [calls EXCEPT ![t].pc = "return"]
    /\ UNCHANGED <<dirExists, disk, libraries, clock, config, resp>>

\* get_all_libraries: return list(self._libraries.values())
QueryReturn ==
    /\ calls["reader"].pc = "return"
    /\ resp' = [Response("reader", 200, "", IdsOf(libraries), << >>, << >>, FALSE)
                   EXCEPT !.count = Len(libraries)]
    /\ calls' = [calls EXCEPT !["reader"] = Idle]
    /\ UNCHANGED <<dirExists, disk, libraries, loaded, clock, config>>

\* reload_recipes returns
ReloadReturn ==
    /\ calls["reloader"].pc = "return"
    /\ resp' = Response("reloader", 200, "", << >>, << >>, << >>, FALSE)
    /\ calls' = [calls EXCEPT !["reloader"] = Idle]
    /\ UNCHANGED <<dirExists, disk, libraries, loaded, clock, config>>

LoadStep == \E t \in Threads : LoadCheck(t) \/ LoadGlob(t) \/ LoadFile(t) \/ LoadDone(t)

NextConc ==
    ReloadClear \/ ReloadUnload \/ QueryCall \/ LoadStep \/ QueryReturn \/ ReloadReturn

SpecConc == InitConc /\ [][NextConc]_vars

----------------------------------------------------------------------------
(* C11 *)

ReloadInProgress == calls["reloader"].pc # "idle"

\* C11: a get_all_libraries call that returns while reload_recipes is in
\* progress returns the whole index of before the reload or the whole index
\* the reload builds, and a query that finds a reload in progress does not
\* start a load of its own.
C11_ReloadAtomicForReaders ==
    [][ReloadInProgress
       => /\ QueryReturn
             => resp'.detail \in {IdsOf(calls["reloader"].before),
                                  IdsOf(LoadLoop(<< >>, disk))}
          /\ LoadCheck("reader") => calls'["reader"].pc = "return"]_vars

----------------------------------------------------------------------------
(* C12 *)

\* a step of a handler that calls load_recipes without reload_recipes
QueryStep == GetLibrary \/ GetAllLibraries \/ GetCategoryLibraries \/ Search

\* C12: once the catalog is loaded, no query changes the index or unloads
\* it, whatever was added to or removed from the directory since; the index
\* changes only in a reload_recipes step.
C12_LoadedIndexIsFrozen ==
    [][loaded => /\ QueryStep => (libraries' = libraries /\ loaded')
                 /\ libraries' # libraries => ReloadRecipes]_vars

\* a query answered from the loaded index although the directory now holds
\* another set of recipes
C12_Witness ==
    /\ loaded
    /\ resp.op = "get_all_libraries"
    /\ resp.status = 200
    /\ resp.detail = <<"fmt">>
    /\ libraries # << >>
    /\ "fmt.yaml" \notin Range(disk)
    /\ "googletest.yaml" \in Range(disk)

----------------------------------------------------------------------------
(* C13 *)

\* a step of a handler that enters the loader
LoaderStep == QueryStep \/ ReloadRecipes

\* C13: a load that completes indexes exactly the documents that are not
\* underscore-prefixed, parse and carry an id (one entry per id), wherever
\* the other documents stand in the listing; with the directory present, a
\* call that enters the loader never fails to load.
C13_InvalidDocumentsSkipped ==
    [][/\ (~loaded /\ loaded') => IndexMatches(libraries', disk')
       /\ (LoaderStep /\ dirExists /\ resp'.error # "query")
          => (loaded' /\ resp'.error # "load")]_vars

\* fmt.yaml was indexed although a malformed document precedes it and an
\* id-less one follows it
C13_Witness ==
    /\ loaded
    /\ disk = <<"broken.yaml", "fmt.yaml", "noid.yaml">>
    /\ IdsOf(libraries) = <<"fmt">>
    /\ resp.op = "search"
    /\ resp.detail = <<"fmt">>

----------------------------------------------------------------------------
(* C14 *)

\* C14: while the directory is missing and the catalog is not loaded, every
\* query that reaches the catalog ends in the load error and leaves the
\* loader unloaded with an empty index; with the directory present, the
\* query of an unloaded catalog loads it and does not end in the load error.
C14_MissingDirectoryIsFatal ==
    [][(QueryStep /\ ~loaded /\ resp'.error # "query")
       => IF dirExists
          THEN loaded' /\ resp'.error # "load" /\ IndexMatches(libraries', disk')
          ELSE /\ resp'.status = 500
               /\ resp'.error = "load"
               /\ resp'.detail = << >>
               /\ ~loaded'
               /\ libraries' = << >>]_vars

\* a query failed on the missing directory
C14_Witness ==
    /\ ~dirExists
    /\ ~loaded
    /\ libraries = << >>
    /\ resp.op \in {"get_all_libraries", "get_library", "get_category_libraries", "search"}
    /\ resp.status = 500
    /\ resp.error = "load"

\* the directory came back and the next query loaded the catalog
C14_WitnessRecovered ==
    /\ dirExists
    /\ loaded
    /\ resp.op = "get_category_libraries"
    /\ resp.status = 200
    /\ resp.detail = <<"googletest">>

----------------------------------------------------------------------------
(* C15 *)

\* the selected ids no recipe document of the directory defines
UnknownOnDisk == SelectedIds \ Range(IdsOf(LoadLoop(<< >>, disk)))

\* C15: a generate or bulk-import request that has a malformed project name
\* and unknown library ids gets one 400 response that reports the name and
\* names every unknown id.
C15_AllViolationsReported ==
    (/\ resp.op \in Zips
     /\ dirExists
     /\ ~NameMatches(config.project_name)
     /\ UnknownOnDisk # {})
    => (/\ resp.status = 400
        /\ resp.error = "name"
        /\ Range(resp.detail) = UnknownOnDisk
        /\ ~resp.zip_called)

----------------------------------------------------------------------------
(* The entry points on requests as they arrive, before FastAPI has          *)
(* validated them against ProjectConfig                                     *)

\* Field(..., min_length=1, max_length=50)
MinNameLength == 1
MaxNameLength == 50

\* Field(default=17, ge=11, le=23)
StandardGe == 11
StandardLe == 23

\* names that are not strings: "name: 42" in an uploaded document
NonStrings == {"42"}

RawNames == DOMAIN NameChars

RawStandards == {3, 12, 17, 24}

RawSelections == {Sel("fmt", << >>), Sel("googletest", << >>), Sel("not_a_real_lib", << >>)}

\* request contents: JSON bodies, query strings and uploaded documents
RawConfigs ==
    [project_name : RawNames,
     cpp_standard : RawStandards,
     libraries : SeqsUpTo(RawSelections, 1),
     include_tests : BOOLEAN,
     testing_framework : {"googletest", "none"},
     build_shared : SharedFlags,
     clang_format_style : Styles]

\* pydantic's validation of a JSON body against ProjectConfig
ProjectConfigValid(cfg) ==
    /\ cfg.project_name \notin NonStrings
    /\ Len(NameChars[cfg.project_name]) >= MinNameLength
    /\ Len(NameChars[cfg.project_name]) <= MaxNameLength
    /\ cfg.cpp_standard >= StandardGe
    /\ cfg.cpp_standard <= StandardLe

\* the 422 answer FastAPI gives for a body that is not a ProjectConfig
Unprocessable(op, st) ==
    [st |-> Keep(st), resp |-> Response(op, 422, "validation", << >>, << >>, << >>, FALSE)]

\* POST /api/generate
RequestGenerate(st, cfg, now) ==
    IF ~ProjectConfigValid(cfg) THEN Unprocessable("generate", st)
    ELSE generate_project(st, cfg, now)

\* POST /api/preview
RequestPreview(st, cfg) ==
    IF ~ProjectConfigValid(cfg) THEN Unprocessable("preview", st)
    ELSE preview_cmake(st, cfg)

\* GET /api/preview: project_name is any string and cpp_standard any int
RequestPreviewLegacy(st, cfg) == preview_cmake_legacy(st, cfg)

\* POST /api/cargo: the values come from yaml.safe_load unchecked; re.match
\* on a name that is not a string raises TypeError outside every try block
RequestCargo(st, cfg, now) ==
    IF cfg.project_name \in NonStrings
    THEN [st |-> Keep(st),
          resp |-> Response("cargo", 500, "type_error", << >>, << >>, << >>, FALSE)]
    ELSE generate_from_cargo(st, cfg, now)

InitEntry ==
    /\ dirExists = TRUE
    /\ disk = <<"fmt.yaml", "googletest.yaml">>
    /\ libraries = << >>
    /\ loaded = FALSE
    /\ clock = 0
    /\ config \in RawConfigs
    /\ resp = NoResponse
    /\ calls = NoCalls

EntryGenerate ==
    \E r \in {RequestGenerate(LoaderState, config, clock)} :
        /\ libraries' = r.st.libraries
        /\ loaded' = r.st.loaded
        /\ resp' = r.resp
        /\ UNCHANGED <<dirExists, disk, clock, config, calls>>

EntryPreview ==
    \E r \in {RequestPreview(LoaderState, config)} :
        /\ libraries' = r.st.libraries
        /\ loaded' = r.st.loaded
        /\ resp' = r.resp
        /\ UNCHANGED <<dirExists, disk, clock, config, calls>>

EntryPreviewLegacy ==
    \E r \in {RequestPreviewLegacy(LoaderState, config)} :
        /\ libraries' = r.st.libraries
        /\ loaded' = r.st.loaded
        /\ resp' = r.resp
        /\ UNCHANGED <<dirExists, disk, clock, config, calls>>

EntryCargo ==
    \E r \in {RequestCargo(LoaderState, config, clock)} :
        /\ libraries' = r.st.libraries
        /\ loaded' = r.st.loaded
        /\ resp' = r.resp
        /\ UNCHANGED <<dirExists, disk, clock, config, calls>>

NextEntry == EntryGenerate \/ EntryPreview \/ EntryPreviewLegacy \/ EntryCargo

SpecEntry == InitEntry /\ [][NextEntry]_vars

----------------------------------------------------------------------------
(* C16 *)

SupportedStandards == {11, 14, 17, 20, 23}

\* the generator ran for the last request
GeneratorInvoked == resp.zip_called \/ (resp.op \in Previews /\ resp.status = 200)

\* C16: a request whose standard is not one of 11, 14, 17, 20, 23 gets a
\* validation error from every entry point and the generator is not invoked.
C16_UnsupportedStandardRejected ==
    (resp.op \in Zips \cup Previews /\ config.cpp_standard \notin SupportedStandards)
    => (resp.status \in {400, 422} /\ ~GeneratorInvoked)

----------------------------------------------------------------------------
(* C17 *)

\* one letter followed by letters, digits or underscores, and nothing else
StrictName(name) ==
    /\ name \notin NonStrings
    /\ Len(NameChars[name]) >= 1
    /\ NameChars[name][1] \in Letters
    /\ \A i \in 2..Len(NameChars[name]) : NameChars[name][i] \in Letters \cup Digits \cup {"_"}

\* C17: a request whose project name is not a letter followed by letters,
\* digits or underscores gets a validation error from every entry point, the
\* catalog is not consulted and the generator is not invoked.
C17_BadNameRejected ==
    (resp.op \in Zips \cup Previews /\ ~StrictName(config.project_name))
    => (resp.status \in {400, 422} /\ ~loaded /\ ~GeneratorInvoked)

----------------------------------------------------------------------------
(* C18 *)

\* the ProjectConfig a bulk-import document stands for
EquivalentConfig == [config EXCEPT !.include_tests = (config.testing_framework # "none")]

\* the artifacts of an archive: path and content of every entry
Artifacts(archive) ==
    {<<archive[i].rel, archive[i].content>> : i \in 1..Len(archive)}

\* what a client can tell of a response: success with its artifacts, a
\* validation failure with what it names, or a server error
Outcome(r) ==
    IF r.status = 200 THEN <<"ok", Artifacts(r.archive)>>
    ELSE IF r.status \in {400, 422} THEN <<"invalid", Range(r.detail)>>
    ELSE <<"error", {}>>

\* C18: the bulk import of a document ends as the generate operation does on
\* the equivalent ProjectConfig: the same artifacts or the same validation
\* failure.
C18_CargoEquivalentToGenerate ==
    [][EntryCargo
       => Outcome(resp') = Outcome(RequestGenerate(LoaderState, EquivalentConfig, clock).resp)]_vars

----------------------------------------------------------------------------
(* forge-server: the handlers of forge-server/main.py.  Its generator module *)
(* is not part of the sources; ForgeManifest and ForgeArchive state what the *)
(* specification says of project kind and archive layout.                   *)

ProjectTypes == {"exe", "lib", "dll"}

ForgeSelections == {Sel("fmt", << >>), Sel("googletest", << >>)}

\* forge-server's ProjectConfig: project_type is any string, default "exe"
ForgeConfigs ==
    [project_name : {"demo_1", "src"},
     cpp_standard : {17},
     libraries : SeqsUpTo(ForgeSelections, 1),
     include_tests : BOOLEAN,
     testing_framework : {"googletest", "none"},
     build_shared : SharedFlags,
     clang_format_style : Styles,
     project_type : ProjectTypes]

\* the lines of the executable target
ExecutableLines(project_name) ==
    {L("section", "Main Executable", "", 0),
     L("add_executable", project_name, "src/main.cpp", 0),
     L("target_link_libraries", project_name, "PRIVATE", 0)}

RECURSIVE Without(_, _)
Without(text, lines) ==
    IF text = << >> THEN << >>
    ELSE (IF Head(text) \in lines THEN << >> ELSE <<Head(text)>>)
         \o Without(Tail(text), lines)

\* the manifest for a project kind: the executable target only for an
\* executable project
ForgeManifest(text, project_name, project_type) ==
    IF project_type = "exe" THEN text ELSE Without(text, ExecutableLines(project_name))

\* the archive for a project kind and a layout: nested puts every path under
\* the project name, flat leaves the paths relative to the archive root
ForgeArchive(zip, project_name, project_type, flat) ==
    [i \in 1..Len(zip) |->
        [zip[i] EXCEPT
            !.dir = IF flat THEN "" ELSE @,
            !.content = IF zip[i].rel = "CMakeLists.txt"
                        THEN ForgeManifest(@, project_name, project_type) ELSE @]]

\* a handler's answer with the archive made for project_type and layout
ForgeZipped(r, project_name, project_type, flat) ==
    [st |-> r.st,
     resp |-> [r.resp EXCEPT !.archive = ForgeArchive(@, project_name, project_type, flat)]]

\* a preview answer: generate_cmake_lists is called without project_type, so
\* the manifest is the one of the generator's default kind
ForgeRendered(r, project_name, default_type) ==
    [st |-> r.st,
     resp |-> [r.resp EXCEPT !.body = ForgeManifest(@, project_name, default_type)]]

\* "if project_type not in ("exe", "lib"): project_type = "exe""
NormalType(project_type) == IF project_type \notin {"exe", "lib"} THEN "exe" ELSE project_type

\* POST /api/generate of forge-server: project_type=config.project_type, no
\* flat argument
forge_generate_project(st, cfg, now) ==
    ForgeZipped(generate_project(st, cfg, now), cfg.project_name, cfg.project_type, FALSE)

\* POST /api/preview of forge-server
forge_preview_cmake(st, cfg, default_type) ==
    ForgeRendered(preview_cmake(st, cfg), cfg.project_name, default_type)

\* POST /api/forge: project_type normalised, flat=True
forge_generate_from_cargo(st, cfg, now) ==
    ForgeZipped(generate_from_cargo(st, cfg, now), cfg.project_name,
                NormalType(cfg.project_type), TRUE)

InitForge ==
    /\ dirExists = TRUE
    /\ disk = <<"fmt.yaml", "googletest.yaml">>
    /\ libraries = << >>
    /\ loaded = FALSE
    /\ clock = 0
    /\ config \in ForgeConfigs
    /\ resp = NoResponse
    /\ calls = NoCalls

ForgeGenerate ==
    \E r \in {forge_generate_project(LoaderState, config, clock)} :
        /\ libraries' = r.st.libraries
        /\ loaded' = r.st.loaded
        /\ resp' = r.resp
        /\ UNCHANGED <<dirExists, disk, clock, config, calls>>

\* the default kind of the generator is not known: either kind
ForgePreview ==
    \E default_type \in {"exe", "lib"} :
      \E r \in {forge_preview_cmake(LoaderState, config, default_type)} :
        /\ libraries' = r.st.libraries
        /\ loaded' = r.st.loaded
        /\ resp' = r.resp
        /\ UNCHANGED <<dirExists, disk, clock, config, calls>>

ForgeCargo ==
    \E r \in {forge_generate_from_cargo(LoaderState, config, clock)} :
        /\ libraries' = r.st.libraries
        /\ loaded' = r.st.loaded
        /\ resp' = r.resp
        /\ UNCHANGED <<dirExists, disk, clock, config, calls>>

NextForge == ForgeGenerate \/ ForgePreview \/ ForgeCargo \/ Tick

SpecForge == InitForge /\ [][NextForge]_vars

----------------------------------------------------------------------------
(* C19 *)

\* the project kind the handler op hands to the generator
KindOf(op) == IF op = "cargo" THEN NormalType(config.project_type) ELSE config.project_type

\* manifest m declares the executable of the project, linked PRIVATE
HasExecutable(m) ==
    /\ \E i \in 1..Len(m) : m[i] = L("add_executable", config.project_name, "src/main.cpp", 0)
    /\ \E i \in 1..Len(m) : m[i] = L("target_link_libraries", config.project_name, "PRIVATE", 0)

\* C19: the manifest of a response (archive or preview) declares the
\* executable target if and only if the project kind is executable.
C19_ExecutableIffExeKind ==
    (Rendered /\ resp.op \in {"generate", "cargo", "preview"})
    => (HasExecutable(Manifest) <=> KindOf(resp.op) = "exe")

----------------------------------------------------------------------------
(* C20 *)

\* the layout flag the handler op passes: flat=True only in the bulk import
Flat(op) == op = "cargo"

\* the components of a relative path of the archive
RelParts(rel) ==
    CASE rel = "include/{project_name}/{project_name}.hpp" ->
             <<"include", config.project_name, "{project_name}.hpp">>
      [] rel = "src/main.cpp" -> <<"src", "main.cpp">>
      [] rel = "src/{project_name}.cpp" -> <<"src", "{project_name}.cpp">>
      [] rel = "tests/CMakeLists.txt" -> <<"tests", "CMakeLists.txt">>
      [] rel = "tests/test_main.cpp" -> <<"tests", "test_main.cpp">>
      [] OTHER -> <<rel>>

\* the components of the path of an archive entry
PathParts(entry) ==
    (IF entry.dir = "" THEN << >> ELSE <<entry.dir>>) \o RelParts(entry.rel)

\* the entry path starts with "<project_name>/"
UnderProjectName(entry) ==
    Len(PathParts(entry)) >= 2 /\ PathParts(entry)[1] = config.project_name

\* the archive of the same request in the other layout
OtherLayout ==
    ForgeArchive(create_project_zip(LoaderState, config.project_name, config.cpp_standard,
                                    config.libraries, CallTests(resp.op),
                                    config.testing_framework, config.build_shared,
                                    config.clang_format_style, clock).zip,
                 config.project_name, KindOf(resp.op), ~Flat(resp.op))

----------------------------------------------------------------------------
(* generate_library_cmake applied to the libraries of a loaded catalog *)

\* option maps a client may send for tuned
BlockOptionMaps ==
    {lp @@ th @@ md @@ fa :
        lp \in {<< >>} \cup {("log_prefix" :> v) : v \in {"''", "'x'", "None"}},
        th \in {<< >>} \cup {("threads" :> v) : v \in {"0", "1", "None"}},
        md \in {<< >>} \cup {("mode" :> v) : v \in {"'x'", "''"}},
        fa \in {<< >>, ("fast" :> "True")}}

BlockSelections ==
    {Sel("tuned", m) : m \in BlockOptionMaps}
    \cup {Sel(id, << >>) : id \in {"stb", "zlib", "fmt", "asio", "catch2", "googletest"}}

BlockDisks ==
    {<<"tuned.yaml", "stb.yaml", "zlib.yaml", "fmt.yaml", "asio.yaml", "catch2.yaml",
       "googletest.yaml">>}

InitBlock ==
    /\ dirExists = TRUE
    /\ disk \in BlockDisks
    /\ libraries = << >>
    /\ loaded = FALSE
    /\ clock = 0
    /\ config \in {[DefaultConfig EXCEPT !.libraries = <<sel>>] : sel \in BlockSelections}
    /\ resp = NoResponse
    /\ calls = NoCalls

\* lib = get_library_by_id(selection.library_id), then
\* generate_library_cmake(lib, options)
BlockOf(ld, sel) ==
    IF ld.raised THEN Response("block", 500, "load", << >>, << >>, << >>, FALSE)
    ELSE IF ~Known(ld.libraries, sel.library_id)
    THEN Response("block", 404, "not_found", << >>, << >>, << >>, FALSE)
    ELSE [Response("block", 200, "", << >>,
                   generate_library_cmake(DictGet(ld.libraries, sel.library_id),
                                          sel.options),
                   << >>, FALSE)
             EXCEPT !.library = DictGet(ld.libraries, sel.library_id)]

LibraryBlock ==
    \E ld \in {load_recipes(LoaderState)} :
       /\ libraries' = ld.libraries
       /\ loaded' = ld.loaded
       /\ resp' = BlockOf(ld, config.libraries[1])
       /\ UNCHANGED <<dirExists, disk, clock, config, calls>>

NextBlock == LibraryBlock

SpecBlock == InitBlock /\ [][NextBlock]_vars

\* a block was rendered for the selected library
BlockRendered == resp.op = "block" /\ resp.status = 200

----------------------------------------------------------------------------
(* C21 *)

IsDirective(l) == l.kind \in {"find_package", "FetchContent_Declare"}

HasLine(text, kind, id, val) ==
    \E i \in 1..Len(text) : text[i].kind = kind /\ text[i].id = id /\ text[i].val = val

\* C21: the acquisition block of every library the loader produces holds
\* exactly one acquisition directive: find_package (find_package_name, else
\* the display name) for a system package, otherwise FetchContent_Declare
\* with the repository, the tag and, only if present, the sub-directory,
\* followed by FetchContent_MakeAvailable; never none and never both.
C21_ExactlyOneDirective ==
    BlockRendered
    => LET lib == resp.library
           b == resp.body
       IN /\ Count(b, IsDirective) = 1
          /\ lib.system_package
             => HasLine(b, "find_package", Get(lib, "find_package_name", lib.name),
                        "REQUIRED")
          /\ ~lib.system_package
             => /\ HasLine(b, "FetchContent_Declare", lib.id, "")
                /\ HasLine(b, "GIT_REPOSITORY", lib.id, lib.fetch_content.repository)
                /\ HasLine(b, "GIT_TAG", lib.id, lib.fetch_content.tag)
                /\ HasLine(b, "FetchContent_MakeAvailable", lib.id, "")
                /\ ("source_subdir" \in DOMAIN lib.fetch_content)
                   <=> (\E i \in 1..Len(b) : b[i].kind = "SOURCE_SUBDIR")

----------------------------------------------------------------------------
(* C22 *)

\* system package without fetch_content, or fetch_content with repository
\* and tag and not a system package
OneStrategy(lib) ==
    \/ lib.system_package /\ "fetch_content" \notin DOMAIN lib
    \/ /\ ~lib.system_package
       /\ "fetch_content" \in DOMAIN lib
       /\ {"repository", "tag"} \subseteq DOMAIN lib.fetch_content

\* C22: after a load every Library of the index has exactly one acquisition
\* strategy; a document with neither or with both is not an index entry.
C22_OneStrategyPerLibrary ==
    loaded => \A i \in 1..Len(libraries) : OneStrategy(libraries[i])

----------------------------------------------------------------------------
(* C23 *)

SetsOf(b, opt) == {i \in 1..Len(b) : b[i].kind = "set" /\ b[i].id = opt.cmake_var}

FirstDirective(b) ==
    IF \E i \in 1..Len(b) : IsDirective(b[i])
    THEN CHOOSE i \in 1..Len(b) : IsDirective(b[i]) /\ \A j \in 1..(i - 1) : ~IsDirective(b[j])
    ELSE Len(b) + 1

\* the assignment the option type calls for: [val, num] of the "set" line
\* (num 1: quoted)
ExpectedSet(opt, v) ==
    IF opt.type = "boolean" THEN [val |-> IF Truthy(v) THEN "ON" ELSE "OFF", num |-> 0]
    ELSE IF opt.type = "integer" THEN [val |-> v, num |-> 0]
    ELSE [val |-> v, num |-> 1]

\* C23: an option is skipped only when its effective value is None; every
\* other option with a cmake_var emits exactly one set(), before the
\* acquisition directive: ON/OFF for boolean, quoted for string and choice
\* (the empty string included), bare for integer (0 included).
C23_OptionAssignments ==
    BlockRendered
    => LET lib == resp.library
           b == resp.body
           options == config.libraries[1].options
       IN \A k \in 1..Len(lib.options) :
              LET opt == lib.options[k]
                  v == EffectiveValue(opt, options)
              IN "cmake_var" \in DOMAIN opt
                 => IF v = PyNone THEN SetsOf(b, opt) = {}
                    ELSE /\ Cardinality(SetsOf(b, opt)) = 1
                         /\ \A i \in SetsOf(b, opt) :
                                /\ i < FirstDirective(b)
                                /\ b[i].val = ExpectedSet(opt, v).val
                                /\ b[i].num = ExpectedSet(opt, v).num

----------------------------------------------------------------------------
(* C24 *)

\* the display names of the selections that resolve to a catalog library of
\* the wanted group, one per occurrence, in selection order
RECURSIVE SelectedNames(_, _)
SelectedNames(selections, testing) ==
    IF selections = << >> THEN << >>
    ELSE (IF /\ Head(selections).library_id \in CatalogIds
             /\ (CatalogLib(Head(selections).library_id).category = "testing") = testing
          THEN <<CatalogLib(Head(selections).library_id).name>> ELSE << >>)
         \o SelectedNames(Tail(selections), testing)

\* the testing group is non-empty: a testing library is selected or the
\* framework is auto-added
TestingGroupNonEmpty(op) ==
    SelectedNames(config.libraries, TRUE) # << >> \/ AutoAdded(op)

LinesOf(m, kinds) == {i \in 1..Len(m) : m[i].kind \in kinds}

\* every line of I comes before every line of J
Before(I, J) == \A i \in I, j \in J : i < j

C24_WitnessOrder ==
    /\ Rendered
    /\ MainBlockNames(Manifest) = <<"Asio", "fmt">>
    /\ TestingBlockNames(Manifest) = << >>

----------------------------------------------------------------------------
(* C25 *)

Archived == resp.op \in Zips /\ resp.status = 200

HasEntry(archive, rel) == \E i \in 1..Len(archive) : archive[i].rel = rel

EntryContent(archive, rel) ==
    archive[CHOOSE i \in 1..Len(archive) : archive[i].rel = rel].content

\* C25: the archive holds tests/CMakeLists.txt and tests/test_main.cpp if and
\* only if its top-level manifest has the testing block that references the
\* tests directory.
C25_TestsAgree ==
    Archived
    => /\ HasEntry(resp.archive, "tests/CMakeLists.txt")
          <=> HasLine(Manifest, "add_subdirectory", "tests", "")
       /\ HasEntry(resp.archive, "tests/test_main.cpp")
          <=> HasLine(Manifest, "add_subdirectory", "tests", "")

----------------------------------------------------------------------------
(* C26 *)

\* the <n> of "C++<n> compatible compiler" in a readme
ReadmeStandard(readme) ==
    readme[CHOOSE i \in 1..Len(readme) : readme[i].kind = "readme_compiler"].num

\* C26: the standard named in README.md equals the effective standard the
\* manifest of the same archive declares.
C26_ReadmeStandardMatches ==
    Archived
    => ReadmeStandard(EntryContent(resp.archive, "README.md")) = ManifestStandard(Manifest)

----------------------------------------------------------------------------
(* C27 *)

\* a config the query string of the legacy preview states in full: empty
\* option maps and the default of every field it has no parameter for
LegacyExpressible ==
    /\ \A i \in 1..Len(config.libraries) : config.libraries[i].options = << >>
    /\ config.testing_framework = "googletest"
    /\ config.build_shared = "False"

\* C27: for a config with empty option maps, testing_framework "googletest"
\* and build_shared false, GET /api/preview returns the manifest text POST
\* /api/preview returns.
C27_LegacyEqualsPreview ==
    [][(PreviewLegacy /\ LegacyExpressible)
       => /\ resp'.status = preview_cmake(LoaderState, config).resp.status
          /\ resp'.body = preview_cmake(LoaderState, config).resp.body]_vars

----------------------------------------------------------------------------
(* C28 *)

\* the catalog libraries with display name name
NamedLibs(name) == {libraries[i] : i \in {j \in 1..Len(libraries) : libraries[j].name = name}}

\* C28: every library of the testing group of a manifest has category
\* testing, and no library is in both the main group and the testing group.
C28_GroupsByCategory ==
    Rendered
    => /\ \A i \in 1..Len(TestingBlockNames(Manifest)) :
              \A lib \in NamedLibs(TestingBlockNames(Manifest)[i]) : lib.category = "testing"
       /\ Range(MainBlockNames(Manifest)) \cap Range(TestingBlockNames(Manifest)) = {}

----------------------------------------------------------------------------
(* C29 *)

ReloadFailed == resp.op = "reload" /\ resp.status = 500

\* C29: a reload_recipes that fails on the missing directory leaves an empty
\* index and an unloaded loader; the query after it raises the load error
\* and returns nothing of the old catalog while the directory is missing,
\* and loads the directory as it then is once it exists again.
C29_FailedReloadDropsCatalog ==
    [][/\ (ReloadRecipes /\ ~dirExists)
          => /\ resp'.status = 500 /\ resp'.error = "load"
             /\ libraries' = << >>
             /\ ~loaded'
       /\ (QueryStep /\ ReloadFailed /\ resp'.error # "query")
          => IF dirExists
             THEN loaded' /\ resp'.error # "load" /\ IndexMatches(libraries', disk')
             ELSE /\ resp'.status = 500 /\ resp'.error = "load"
                  /\ resp'.library = NoLibrary /\ resp'.detail = << >>
                  /\ libraries' = << >>
                  /\ ~loaded']_vars

\* the reload failed on the missing directory and nothing of the catalog is
\* left
C29_Witness ==
    /\ ReloadFailed
    /\ ~dirExists
    /\ libraries = << >>
    /\ ~loaded

----------------------------------------------------------------------------
(* Generation and preview on a loaded catalog while the recipes directory   *)
(* changes underneath                                                       *)

FrameDisk == <<"fmt.yaml", "asio.yaml", "googletest.yaml", "catch2.yaml">>

FrameSelections ==
    {Sel("fmt", << >>), Sel("asio", ("asio_ssl" :> "True")), Sel("googletest", << >>),
     Sel("catch2", << >>)}

FrameConfigs ==
    [project_name : {"demo_1"},
     cpp_standard : {11},
     libraries : SeqsUpTo(FrameSelections, MaxSel),
     include_tests : BOOLEAN,
     testing_framework : {"googletest", "none", "fmt"},
     build_shared : SharedFlags,
     clang_format_style : Styles]

\* the catalog was loaded from the directory by an earlier request
InitFrame ==
    /\ dirExists = TRUE
    /\ disk = FrameDisk
    /\ libraries = LoadLoop(<< >>, FrameDisk)
    /\ loaded = TRUE
    /\ clock = 0
    /\ config \in FrameConfigs
    /\ resp = NoResponse
    /\ calls = NoCalls

NextFrame == Generate \/ Preview \/ PreviewLegacy \/ Cargo \/ RemoveDoc \/ RemoveDir

SpecFrame == InitFrame /\ [][NextFrame]_vars

----------------------------------------------------------------------------
(* C30 *)

GeneratorStep == Generate \/ Preview \/ PreviewLegacy \/ Cargo

\* the catalog as the first load left it
FirstCatalog == [libraries |-> LoadLoop(<< >>, FrameDisk), loaded |-> TRUE]

\* what the handler of the step answers on catalog st
Answer(op, st) ==
    CASE op = "generate" -> generate_project(st, config, clock).resp
      [] op = "preview" -> preview_cmake(st, config).resp
      [] op = "preview_legacy" -> preview_cmake_legacy(st, config).resp
      [] op = "cargo" -> generate_from_cargo(st, config, clock).resp

\* C30: with the catalog loaded, a generate, bulk-import or preview request
\* leaves the index as it was, same ids and same Library records, and its
\* result is the one the catalog as first loaded gives, whatever requests
\* ran before.
C30_GenerationLeavesCatalog ==
    [][(loaded /\ GeneratorStep)
       => /\ libraries' = libraries
          /\ loaded'
          /\ resp' = Answer(resp'.op, FirstCatalog)]_vars

\* a request that auto-adds the framework and applies an option override has
\* run on a catalog whose directory has since lost documents
C30_Witness ==
    /\ resp.op = "generate"
    /\ resp.status = 200
    /\ loaded
    /\ Len(disk) < Len(FrameDisk)
    /\ config.include_tests /\ config.testing_framework = "googletest"
    /\ "googletest" \notin SelectedIds
    /\ \E i \in 1..Len(config.libraries) : config.libraries[i].options # << >>
    /\ libraries = FirstCatalog.libraries

====
